---------------------------- MODULE Spec2Model ----------------------------
(***************************************************************************)
(* A model of src/app.py: the classroom limit order book.  Several script  *)
(* threads share one OrderBook (bids, asks, trades, a lock), the holdings  *)
(* dictionary and the two id counters.  add_order and reset run under the  *)
(* lock; the views (bids_df, asks_df, trades_df) and the leaderboard's     *)
(* read of holdings do not take it.                                        *)
(*                                                                         *)
(* Prices are whole currency units (floats with no fractional part are     *)
(* exact in binary floating point, so the arithmetic of the code is exact  *)
(* on them).  Timestamps are readings of a clock that may stand still      *)
(* between two readings; it never runs backwards, except in SpecClock,     *)
(* where the wall clock that time.time() reads may have been set back.     *)
(***************************************************************************)
EXTENDS Integers, Sequences, FiniteSets, TLC

\* ---------------------------------------------------------------- bounds
\* Orders issued in one behaviour of the call-by-call specifications (the cap
\* on order_id_counter).
MaxOrders == 3
\* Orders issued in one behaviour of the statement-by-statement specification.
MaxThreadOrders == 2

\* ------------------------------------------------------ program constants
START_CASH == 300
START_ASSETS == 3
\* trades_df(self, limit=30)
DefaultLimit == 30

\* ----------------------------------------------------------------- inputs
Threads == {"t1", "t2"}
Users == {"A", "B"}
Sides == {"BUY", "SELL"}
Prices == {100, 101}
Qtys == {5, 10}
\* Inputs the user interface would not send but add_order accepts.
RawSides == {"BUY", "sell", "HOLD"}
RawPrices == {-1, 100}
RawQtys == {0, 5}

None == "None"

VARIABLES
    bids,               \* OrderBook.bids: a list of orders
    asks,               \* OrderBook.asks
    trades,             \* OrderBook.trades, newest first
    holdings,           \* the holdings dictionary: user -> [cash, assets]
    order_id_counter,   \* the next value of itertools.count(1)
    trade_id_counter,
    lock,               \* OrderBook.lock: None or the thread holding it
    now,                \* the last reading of time.time()
    pc,                 \* each thread's position
    args,               \* each thread's arguments of the call in progress
    o,                  \* add_order's local o: the Order it created
    mqty,               \* _match's local qty
    mprice,             \* _match's local price
    view,               \* the table a thread has built and is showing
    pre,                \* history: the book when the lock was taken
    submitted,          \* history: the orders created since the last reset, by id
    last                \* history: the last whole call and what it returned or raised

vars == <<bids, asks, trades, holdings, order_id_counter, trade_id_counter,
          lock, now, pc, args, o, mqty, mprice, view, pre, submitted, last>>

\* The thread-local and lock state, which a whole call leaves as it found it.
locals == <<lock, pc, args, o, mqty, mprice, view, pre>>

\* ---------------------------------------------------------------- helpers
Min(a, b) == IF a <= b THEN a ELSE b

EmptyMap == [u \in {} |-> 0]

NoArgs == [user |-> None, side |-> None, price |-> 0, qty |-> 0]
NoOrder == [id |-> 0, user |-> None, side |-> None, price |-> 0, qty |-> 0, ts |-> 0]
NoView == [kind |-> None, by |-> None, rows |-> <<>>]
NoCall == [op |-> None, args |-> NoArgs, raised |-> None, value |-> NoOrder]

\* Order(id, user, side, price, qty, ts); sort_index repeats ts and is never read.
Order(id, user, side, price, qty, ts) ==
    [id |-> id, user |-> user, side |-> side, price |-> price, qty |-> qty, ts |-> ts]

\* Trade(id, price, qty, buy_order_id, sell_order_id, ts); ts is shown in the trade
\* table and read by nothing else, and is left out.
Trade(id, price, qty, buy_order_id, sell_order_id) ==
    [id |-> id, price |-> price, qty |-> qty,
     buy_order_id |-> buy_order_id, sell_order_id |-> sell_order_id]

\* side.upper()
Upper(s) ==
    CASE s = "buy" -> "BUY"
      [] s = "sell" -> "SELL"
      [] s = "hold" -> "HOLD"
      [] OTHER -> s

\* ---------------------------------------------------------------- sorting
\* The sort keys of _sort_books.
BidKey(x) == <<0 - x.price, x.ts>>
\* Mutant: the latest ask of a price comes first.
AskKeyLatestFirst(x) == <<x.price, 0 - x.ts>>
AskKey(x) == <<x.price, x.ts>>

\* Python's order on 2-tuples.
KeyLess(k1, k2) == k1[1] < k2[1] \/ (k1[1] = k2[1] /\ k1[2] < k2[2])

KeyOf(x, which) == IF which = "bids" THEN BidKey(x) ELSE AskKey(x)

\* x put into the sorted list s behind every element whose key is not greater.
RECURSIVE InsertByKey(_, _, _)
InsertByKey(s, x, which) ==
    IF s = <<>> THEN <<x>>
    ELSE IF KeyLess(KeyOf(x, which), KeyOf(Head(s), which))
         THEN <<x>> \o s
         ELSE <<Head(s)>> \o InsertByKey(Tail(s), x, which)

\* list.sort(key=...): a stable sort.
RECURSIVE SortFrom(_, _, _)
SortFrom(done, rest, which) ==
    IF rest = <<>> THEN done
    ELSE SortFrom(InsertByKey(done, Head(rest), which), Tail(rest), which)

SortList(s, which) == SortFrom(<<>>, s, which)

\* ---------------------------------------------------------------- holdings
EnsureUser(h, user) ==
    IF user \in DOMAIN h THEN h
    ELSE [u \in DOMAIN h \cup {user} |->
             IF u = user THEN [cash |-> START_CASH, assets |-> START_ASSETS]
             ELSE h[u]]

\* Mutant: the seller is credited the price of one unit.
UpdateHoldingsUnitCredit(h, buy_user, sell_user, price, qty) ==
    LET h0 == EnsureUser(EnsureUser(h, buy_user), sell_user)
        h1 == [h0 EXCEPT ![buy_user].cash = @ - price * qty]
        h2 == [h1 EXCEPT ![buy_user].assets = @ + qty]
        h3 == [h2 EXCEPT ![sell_user].cash = @ + price]
        h4 == [h3 EXCEPT ![sell_user].assets = @ - qty]
    IN  h4

\* Mutant: the buyer is paid and the seller pays.
UpdateHoldingsReversed(h, buy_user, sell_user, price, qty) ==
    LET h0 == EnsureUser(EnsureUser(h, buy_user), sell_user)
        h1 == [h0 EXCEPT ![buy_user].cash = @ + price * qty]
        h2 == [h1 EXCEPT ![buy_user].assets = @ + qty]
        h3 == [h2 EXCEPT ![sell_user].cash = @ - price * qty]
        h4 == [h3 EXCEPT ![sell_user].assets = @ - qty]
    IN  h4

UpdateHoldings(h, buy_user, sell_user, price, qty) ==
    LET h0 == EnsureUser(EnsureUser(h, buy_user), sell_user)
        h1 == [h0 EXCEPT ![buy_user].cash = @ - price * qty]
        h2 == [h1 EXCEPT ![buy_user].assets = @ + qty]
        h3 == [h2 EXCEPT ![sell_user].cash = @ + price * qty]
        h4 == [h3 EXCEPT ![sell_user].assets = @ - qty]
    IN  h4

\* ------------------------------------------------- the pieces of _match
\* Mutant: the loop stops at equal prices.
CrossedStrictly(b, a) == b # <<>> /\ a # <<>> /\ b[1].price > a[1].price

\* The condition of the while loop.
Crossed(b, a) == b # <<>> /\ a # <<>> /\ b[1].price >= a[1].price

\* Mutant: the trade is made at the bid.
MatchPriceAtBid(buy, sell) == buy.price

\* Mutant: the trade is made at the price of the earlier of the two orders.
MatchPricePassive(buy, sell) == IF buy.id < sell.id THEN buy.price ELSE sell.price

\* price = sell.price
MatchPrice(buy, sell) == sell.price

\* qty = min(buy.qty, sell.qty)
MatchQty(buy, sell) == Min(buy.qty, sell.qty)

\* Mutant: the first order is popped whatever is left of it.
PopFirst(s) == Tail(s)

\* Mutant: no order is popped.
PopNever(s) == s

\* if x.qty == 0: list.pop(0), for the list's first order x.
PopFilled(s) == IF s[1].qty = 0 THEN Tail(s) ELSE s

\* Mutant: o is a copy of the order in the list and keeps its quantity.
FilledCopy(x, buy, sell, q) == x

\* add_order's o after buy.qty -= q and sell.qty -= q: o is the object in the list.
Filled(x, buy, sell, q) ==
    IF x.id = buy.id \/ x.id = sell.id THEN [x EXCEPT !.qty = @ - q] ELSE x

\* Mutant: the two lists are taken for one another.
BookOfSwapped(x) == IF x.side = "BUY" THEN "asks" ELSE "bids"

\* book = self.bids if o.side == "BUY" else self.asks
BookOf(x) == IF x.side = "BUY" THEN "bids" ELSE "asks"

\* ------------------------------------------------- a call as one function
\* The book a call works on, with add_order's o.
Book ==
    [bids |-> bids, asks |-> asks, trades |-> trades, holdings |-> holdings,
     tid |-> trade_id_counter, o |-> NoOrder]

EmptyBook(B) ==
    [bids |-> <<>>, asks |-> <<>>, trades |-> <<>>, holdings |-> EmptyMap,
     tid |-> B.tid, o |-> NoOrder]

SortBoth(B) ==
    [B EXCEPT !.bids = SortList(B.bids, "bids"), !.asks = SortList(B.asks, "asks")]

\* Mutant: the trade is put at the end of the log.
MatchIterAppending(B) ==
    LET buy == B.bids[1]
        sell == B.asks[1]
        q == MatchQty(buy, sell)
        p == MatchPrice(buy, sell)
        b1 == [B.bids EXCEPT ![1].qty = @ - q]
        a1 == [B.asks EXCEPT ![1].qty = @ - q]
    IN  SortBoth([bids |-> PopFilled(b1),
                  asks |-> PopFilled(a1),
                  trades |-> Append(B.trades, Trade(B.tid, p, q, buy.id, sell.id)),
                  holdings |-> UpdateHoldings(B.holdings, buy.user, sell.user, p, q),
                  tid |-> B.tid + 1,
                  o |-> Filled(B.o, buy, sell, q)])

\* One iteration of the loop of _match.
MatchIter(B) ==
    LET buy == B.bids[1]
        sell == B.asks[1]
        q == MatchQty(buy, sell)
        p == MatchPrice(buy, sell)
        b1 == [B.bids EXCEPT ![1].qty = @ - q]
        a1 == [B.asks EXCEPT ![1].qty = @ - q]
    IN  SortBoth([bids |-> PopFilled(b1),
                  asks |-> PopFilled(a1),
                  trades |-> <<Trade(B.tid, p, q, buy.id, sell.id)>> \o B.trades,
                  holdings |-> UpdateHoldings(B.holdings, buy.user, sell.user, p, q),
                  tid |-> B.tid + 1,
                  o |-> Filled(B.o, buy, sell, q)])

RECURSIVE MatchLoop(_)
MatchLoop(B) == IF Crossed(B.bids, B.asks) THEN MatchLoop(MatchIter(B)) ELSE B

\* _match()
Match(B) == MatchLoop(SortBoth(B))

\* The body of add_order from book.append(o) on.
AddOrderResult(B, x) ==
    LET B1 == IF BookOf(x) = "bids"
              THEN [B EXCEPT !.bids = Append(@, x), !.o = x]
              ELSE [B EXCEPT !.asks = Append(@, x), !.o = x]
    IN  Match(SortBoth(B1))

\* ------------------------------------------------------------------- lock
\* Mutant: the lock is taken without waiting for it.
AcquireWithoutWaiting(t) == lock' = t

Acquire(t) == lock = None /\ lock' = t
Release(t) == lock' = None

\* ------------------------------------------------------------------- Init
Init ==
    /\ bids = <<>>
    /\ asks = <<>>
    /\ trades = <<>>
    /\ holdings = EmptyMap
    /\ order_id_counter = 1
    /\ trade_id_counter = 1
    /\ lock = None
    /\ now = 0
    /\ pc = [t \in Threads |-> "idle"]
    /\ args = [t \in Threads |-> NoArgs]
    /\ o = [t \in Threads |-> NoOrder]
    /\ mqty = [t \in Threads |-> 0]
    /\ mprice = [t \in Threads |-> 0]
    /\ view = NoView
    /\ pre = <<>>
    /\ submitted = EmptyMap
    /\ last = NoCall

\* time.time(): the last reading again, or a later one.
ClockSteps == {0, 1}
\* time.time() reads the system's wall clock, which may also have been set back
\* since the last reading.
WallClockSteps == {-1, 0, 1}

\* ------------------------------------------------ whole calls, one by one
Record(x) ==
    [i \in DOMAIN submitted \cup {x.id} |-> IF i = x.id THEN x ELSE submitted[i]]

\* add_order(user, side, price, qty), from taking the lock to `return o`.
AddOrder(user, side, price, qty, dt) ==
    /\ lock = None
    /\ order_id_counter <= MaxOrders
    /\ now' = now + dt
    /\ \E x \in {Order(order_id_counter, user, Upper(side), price, qty, now + dt)} :
       \E R \in {AddOrderResult(Book, x)} :
           /\ bids' = R.bids
           /\ asks' = R.asks
           /\ trades' = R.trades
           /\ holdings' = R.holdings
           /\ trade_id_counter' = R.tid
           /\ submitted' = Record(x)
           /\ last' = [op |-> "add_order",
                       args |-> [user |-> user, side |-> side, price |-> price, qty |-> qty],
                       raised |-> None, value |-> R.o]
    /\ order_id_counter' = order_id_counter + 1
    /\ UNCHANGED locals

\* Mutant: the holdings outlive the reset.
ResetKeepingLedger ==
    /\ lock = None
    /\ bids' = <<>>
    /\ asks' = <<>>
    /\ trades' = <<>>
    /\ submitted' = EmptyMap
    /\ last' = [op |-> "reset", args |-> NoArgs, raised |-> None, value |-> NoOrder]
    /\ UNCHANGED <<holdings, order_id_counter, trade_id_counter, now, locals>>

\* reset(), from taking the lock to leaving it.
Reset ==
    /\ lock = None
    /\ bids' = <<>>
    /\ asks' = <<>>
    /\ trades' = <<>>
    /\ holdings' = EmptyMap
    /\ submitted' = EmptyMap
    /\ last' = [op |-> "reset", args |-> NoArgs, raised |-> None, value |-> NoOrder]
    /\ UNCHANGED <<order_id_counter, trade_id_counter, now, locals>>

\* book.cancel(order_id, trader, force): class OrderBook defines no cancel, so the
\* attribute lookup raises AttributeError before anything is called.
Cancel(order_id, trader, force) ==
    /\ last' = [op |-> "cancel",
                args |-> [order_id |-> order_id, trader |-> trader, force |-> force],
                raised |-> "AttributeError", value |-> NoOrder]
    /\ UNCHANGED <<bids, asks, trades, holdings, order_id_counter, trade_id_counter,
                   now, submitted, locals>>

\* ------------------------------------- add_order, statement by statement
\* add_order(user, side, price, qty): `with self.lock`.
AddOrderCall(t, user, side, price, qty) ==
    /\ pc[t] = "idle"
    /\ order_id_counter <= MaxThreadOrders
    /\ Acquire(t)
    /\ pc' = [pc EXCEPT ![t] = "ao_new"]
    /\ args' = [args EXCEPT ![t] = [user |-> user, side |-> side, price |-> price, qty |-> qty]]
    /\ pre' = Book
    /\ UNCHANGED <<bids, asks, trades, holdings, order_id_counter, trade_id_counter,
                   now, o, mqty, mprice, view, submitted, last>>

\* o = Order(id=next(order_id_counter), ..., ts=time.time())
AoNew(t, dt) ==
    /\ pc[t] = "ao_new"
    /\ now' = now + dt
    /\ LET x == Order(order_id_counter, args[t].user, Upper(args[t].side),
                      args[t].price, args[t].qty, now + dt)
       IN  /\ o' = [o EXCEPT ![t] = x]
           /\ submitted' = Record(x)
    /\ order_id_counter' = order_id_counter + 1
    /\ pc' = [pc EXCEPT ![t] = "ao_append"]
    /\ UNCHANGED <<bids, asks, trades, holdings, trade_id_counter, lock,
                   args, mqty, mprice, view, pre, last>>

\* book.append(o)
AoAppend(t) ==
    /\ pc[t] = "ao_append"
    /\ IF BookOf(o[t]) = "bids"
       THEN bids' = Append(bids, o[t]) /\ asks' = asks
       ELSE asks' = Append(asks, o[t]) /\ bids' = bids
    /\ pc' = [pc EXCEPT ![t] = "ao_sort"]
    /\ UNCHANGED <<trades, holdings, order_id_counter, trade_id_counter, lock, now,
                   args, o, mqty, mprice, view, pre, submitted, last>>

\* self._sort_books(): in add_order, at the head of _match and at the end of each
\* iteration of its loop.
SortBooks(t, from, to) ==
    /\ pc[t] = from
    /\ bids' = SortList(bids, "bids")
    /\ asks' = SortList(asks, "asks")
    /\ pc' = [pc EXCEPT ![t] = to]
    /\ UNCHANGED <<trades, holdings, order_id_counter, trade_id_counter, lock, now,
                   args, o, mqty, mprice, view, pre, submitted, last>>

AoSort(t) == SortBooks(t, "ao_sort", "m_sort")
MSort(t) == SortBooks(t, "m_sort", "m_loop")
MResort(t) == SortBooks(t, "m_resort", "m_loop")

\* The loop test of _match; when it holds, buy, sell, qty and price are set (buy
\* and sell are the first orders of the two lists until they are popped).
MLoop(t) ==
    /\ pc[t] = "m_loop"
    /\ IF Crossed(bids, asks)
       THEN /\ mqty' = [mqty EXCEPT ![t] = MatchQty(bids[1], asks[1])]
            /\ mprice' = [mprice EXCEPT ![t] = MatchPrice(bids[1], asks[1])]
            /\ pc' = [pc EXCEPT ![t] = "m_trade"]
       ELSE /\ pc' = [pc EXCEPT ![t] = "ao_ret"]
            /\ UNCHANGED <<mqty, mprice>>
    /\ UNCHANGED <<bids, asks, trades, holdings, order_id_counter, trade_id_counter,
                   lock, now, args, o, view, pre, submitted, last>>

\* t = Trade(id=next(trade_id_counter), ...); self.trades.insert(0, t)
MTrade(t) ==
    /\ pc[t] = "m_trade"
    /\ bids # <<>> /\ asks # <<>>
    /\ trades' = <<Trade(trade_id_counter, mprice[t], mqty[t],
                         bids[1].id, asks[1].id)>> \o trades
    /\ trade_id_counter' = trade_id_counter + 1
    /\ pc' = [pc EXCEPT ![t] = "m_hold"]
    /\ UNCHANGED <<bids, asks, holdings, order_id_counter, lock, now,
                   args, o, mqty, mprice, view, pre, submitted, last>>

\* update_holdings(buy.user, sell.user, price, qty)
MHold(t) ==
    /\ pc[t] = "m_hold"
    /\ bids # <<>> /\ asks # <<>>
    /\ holdings' = UpdateHoldings(holdings, bids[1].user, asks[1].user, mprice[t], mqty[t])
    /\ pc' = [pc EXCEPT ![t] = "m_dec"]
    /\ UNCHANGED <<bids, asks, trades, order_id_counter, trade_id_counter, lock, now,
                   args, o, mqty, mprice, view, pre, submitted, last>>

\* buy.qty -= qty; sell.qty -= qty
MDec(t) ==
    /\ pc[t] = "m_dec"
    /\ bids # <<>> /\ asks # <<>>
    /\ bids' = [bids EXCEPT ![1].qty = @ - mqty[t]]
    /\ asks' = [asks EXCEPT ![1].qty = @ - mqty[t]]
    /\ o' = [o EXCEPT ![t] = Filled(o[t], bids[1], asks[1], mqty[t])]
    /\ pc' = [pc EXCEPT ![t] = "m_pop"]
    /\ UNCHANGED <<trades, holdings, order_id_counter, trade_id_counter, lock, now,
                   args, mqty, mprice, view, pre, submitted, last>>

\* if buy.qty == 0: self.bids.pop(0); if sell.qty == 0: self.asks.pop(0)
MPop(t) ==
    /\ pc[t] = "m_pop"
    /\ bids # <<>> /\ asks # <<>>
    /\ bids' = PopFilled(bids)
    /\ asks' = PopFilled(asks)
    /\ pc' = [pc EXCEPT ![t] = "m_resort"]
    /\ UNCHANGED <<trades, holdings, order_id_counter, trade_id_counter, lock, now,
                   args, o, mqty, mprice, view, pre, submitted, last>>

\* return o, leaving `with self.lock`.
AoReturn(t) ==
    /\ pc[t] = "ao_ret"
    /\ Release(t)
    /\ pc' = [pc EXCEPT ![t] = "idle"]
    /\ args' = [args EXCEPT ![t] = NoArgs]
    /\ o' = [o EXCEPT ![t] = NoOrder]
    /\ mqty' = [mqty EXCEPT ![t] = 0]
    /\ mprice' = [mprice EXCEPT ![t] = 0]
    /\ pre' = <<>>
    /\ UNCHANGED <<bids, asks, trades, holdings, order_id_counter, trade_id_counter,
                   now, view, submitted, last>>

\* ----------------------------------------- reset, statement by statement
ResetCall(t) ==
    /\ pc[t] = "idle"
    /\ Acquire(t)
    /\ pc' = [pc EXCEPT ![t] = "r_bids"]
    /\ pre' = Book
    /\ UNCHANGED <<bids, asks, trades, holdings, order_id_counter, trade_id_counter,
                   now, args, o, mqty, mprice, view, submitted, last>>

\* self.bids.clear()
ResetBids(t) ==
    /\ pc[t] = "r_bids"
    /\ bids' = <<>>
    /\ pc' = [pc EXCEPT ![t] = "r_asks"]
    /\ UNCHANGED <<asks, trades, holdings, order_id_counter, trade_id_counter, lock, now,
                   args, o, mqty, mprice, view, pre, submitted, last>>

\* self.asks.clear()
ResetAsks(t) ==
    /\ pc[t] = "r_asks"
    /\ asks' = <<>>
    /\ pc' = [pc EXCEPT ![t] = "r_trades"]
    /\ UNCHANGED <<bids, trades, holdings, order_id_counter, trade_id_counter, lock, now,
                   args, o, mqty, mprice, view, pre, submitted, last>>

\* self.trades.clear()
ResetTrades(t) ==
    /\ pc[t] = "r_trades"
    /\ trades' = <<>>
    /\ pc' = [pc EXCEPT ![t] = "r_hold"]
    /\ UNCHANGED <<bids, asks, holdings, order_id_counter, trade_id_counter, lock, now,
                   args, o, mqty, mprice, view, pre, submitted, last>>

\* Mutant: reset starts the counters again.
ResetHoldingsAndIds(t) ==
    /\ pc[t] = "r_hold"
    /\ holdings' = EmptyMap
    /\ submitted' = EmptyMap
    /\ order_id_counter' = 1
    /\ trade_id_counter' = 1
    /\ pc' = [pc EXCEPT ![t] = "r_ret"]
    /\ UNCHANGED <<bids, asks, trades, lock, now, args, o, mqty, mprice, view, pre, last>>

\* holdings.clear()
ResetHoldings(t) ==
    /\ pc[t] = "r_hold"
    /\ holdings' = EmptyMap
    /\ submitted' = EmptyMap
    /\ pc' = [pc EXCEPT ![t] = "r_ret"]
    /\ UNCHANGED <<bids, asks, trades, order_id_counter, trade_id_counter, lock, now,
                   args, o, mqty, mprice, view, pre, last>>

\* Leaving `with self.lock`.
ResetReturn(t) ==
    /\ pc[t] = "r_ret"
    /\ Release(t)
    /\ pc' = [pc EXCEPT ![t] = "idle"]
    /\ pre' = <<>>
    /\ UNCHANGED <<bids, asks, trades, holdings, order_id_counter, trade_id_counter,
                   now, args, o, mqty, mprice, view, submitted, last>>

\* ------------------------------------------------------------------ views
\* The row bids_df and asks_df build of an order (Time is pd.to_datetime(o.ts),
\* kept as the clock reading).
OrderRow(x) == [ID |-> x.id, Trader |-> x.user, Price |-> x.price, Qty |-> x.qty, Time |-> x.ts]

\* The row trades_df builds of a trade.
TradeRow(x) ==
    [Trade |-> x.id, Price |-> x.price, Qty |-> x.qty,
     BuyID |-> x.buy_order_id, SellID |-> x.sell_order_id]

OrderRows(s) == [i \in 1..Len(s) |-> OrderRow(s[i])]
TradeRows(s) == [i \in 1..Len(s) |-> TradeRow(s[i])]

\* A thread builds a table from a list it reads without the lock, whatever the
\* other threads are doing.
BuildView(t, kind, rows) ==
    /\ pc[t] = "idle"
    /\ view = NoView
    /\ view' = [kind |-> kind, by |-> t, rows |-> rows]
    /\ UNCHANGED <<bids, asks, trades, holdings, order_id_counter, trade_id_counter,
                   lock, now, pc, args, o, mqty, mprice, pre, submitted, last>>

bids_df(t) == BuildView(t, "bids", OrderRows(bids))
asks_df(t) == BuildView(t, "asks", OrderRows(asks))
\* s[:limit], a Python slice: the first limit elements, all of s when it has
\* fewer; a negative limit counts from the end.
SliceTo(s, limit) ==
    IF limit >= 0 THEN SubSeq(s, 1, Min(limit, Len(s)))
    ELSE SubSeq(s, 1, Len(s) + limit)

\* The table trades_df(limit) builds.
TradesDf(limit) == TradeRows(SliceTo(trades, limit))

\* trades_df(), as the page calls it: limit=30.
trades_df(t) == BuildView(t, "trades", TradesDf(DefaultLimit))
\* The leaderboard's loop over holdings.items().
holdings_items(t) == BuildView(t, "holdings", holdings)

\* The table is shown and dropped.
DropView(t) ==
    /\ view # NoView
    /\ view.by = t
    /\ view' = NoView
    /\ UNCHANGED <<bids, asks, trades, holdings, order_id_counter, trade_id_counter,
                   lock, now, pc, args, o, mqty, mprice, pre, submitted, last>>

\* ------------------------------------------------------------------- Next
\* Whole calls, one after the other, with the orders the page can send.
Next ==
    \/ \E user \in Users, side \in Sides, price \in Prices, qty \in Qtys, dt \in ClockSteps :
           AddOrder(user, side, price, qty, dt)
    \/ Reset

Spec == Init /\ [][Next]_vars

\* Whole calls with any side, price and quantity.
NextRaw ==
    \/ \E user \in Users, side \in RawSides, price \in RawPrices, qty \in RawQtys, dt \in ClockSteps :
           AddOrder(user, side, price, qty, dt)
    \/ Reset

SpecRaw == Init /\ [][NextRaw]_vars

\* Whole calls, the wall clock being set back between some of them.
NextClock ==
    \/ \E user \in Users, side \in Sides, price \in Prices, qty \in Qtys, dt \in WallClockSteps :
           AddOrder(user, side, price, qty, dt)
    \/ Reset

SpecClock == Init /\ [][NextClock]_vars

\* Whole calls, cancel among them.
NextCancel ==
    \/ \E user \in Users, side \in Sides, dt \in ClockSteps : AddOrder(user, side, 100, 5, dt)
    \/ Reset
    \/ \E order_id \in 1..MaxOrders, trader \in Users \cup {None}, force \in BOOLEAN :
           Cancel(order_id, trader, force)

SpecCancel == Init /\ [][NextCancel]_vars

\* Threads running add_order, reset and the views statement by statement.
Step(t) ==
    \/ \E dt \in ClockSteps : AoNew(t, dt)
    \/ AoAppend(t)
    \/ AoSort(t)
    \/ MSort(t)
    \/ MLoop(t)
    \/ MTrade(t)
    \/ MHold(t)
    \/ MDec(t)
    \/ MPop(t)
    \/ MResort(t)
    \/ AoReturn(t)
    \/ ResetCall(t)
    \/ ResetBids(t)
    \/ ResetAsks(t)
    \/ ResetTrades(t)
    \/ ResetHoldings(t)
    \/ ResetReturn(t)

Look(t) ==
    \/ bids_df(t)
    \/ asks_df(t)
    \/ trades_df(t)
    \/ holdings_items(t)
    \/ DropView(t)

NextThreads ==
    \/ \E t \in Threads, user \in Users, side \in Sides, price \in Prices, qty \in Qtys :
           AddOrderCall(t, user, side, price, qty)
    \/ \E t \in Threads : Step(t)

SpecThreads == Init /\ [][NextThreads]_vars

\* The statements of add_order, _match within it.
Submit(t) ==
    \/ \E dt \in ClockSteps : AoNew(t, dt)
    \/ AoAppend(t)
    \/ AoSort(t)
    \/ MSort(t)
    \/ MLoop(t)
    \/ MTrade(t)
    \/ MHold(t)
    \/ MDec(t)
    \/ MPop(t)
    \/ MResort(t)
    \/ AoReturn(t)

\* The threads of two sessions, each submitting under its own user alias.
UserOf(t) == IF t = "t1" THEN "A" ELSE "B"

NextSessions ==
    \/ \E t \in Threads, side \in Sides, price \in Prices, qty \in Qtys :
           AddOrderCall(t, UserOf(t), side, price, qty)
    \/ \E t \in Threads : Submit(t)

SpecThreadsFair ==
    Init /\ [][NextSessions]_vars /\ \A t \in Threads : WF_vars(Submit(t))

\* The same threads, building the page's tables in between.
NextViews ==
    \/ NextThreads
    \/ \E t \in Threads : Look(t)

SpecViews == Init /\ [][NextViews]_vars

\* ============================================================ properties
\* The vocabulary of the properties below.
AtRest == lock = None /\ \A t \in Threads : pc[t] = "idle"

Range(s) == {s[i] : i \in DOMAIN s}
Resting == Range(bids) \cup Range(asks)
RestingIds == {x.id : x \in Resting}

RECURSIVE SumOf(_, _)
SumOf(S, f) ==
    IF S = {} THEN 0
    ELSE LET x == CHOOSE y \in S : TRUE IN f[x] + SumOf(S \ {x}, f)

\* The trades of the log that name order i, and their quantities summed.
TradesOf(i) == {T \in Range(trades) : T.buy_order_id = i \/ T.sell_order_id = i}
QtySum(S) == SumOf(S, [T \in S |-> T.qty])
\* What was left of order i just before trade T: trade ids are issued in the
\* order the trades are made.
LeftBefore(i, T) == submitted[i].qty - QtySum({U \in TradesOf(i) : U.id < T.id})

\* ---------------------------------------------------------------------------
\* C1  No-cross: whenever no call is in progress, the bid list or the ask list is
\* empty, or the first bid's price is strictly below the first ask's price.
C1_NoCross ==
    AtRest => (bids = <<>> \/ asks = <<>> \/ bids[1].price < asks[1].price)

\* Both sides rest uncrossed after a matching pass has traded.
C1_Witness ==
    /\ AtRest
    /\ bids # <<>> /\ asks # <<>> /\ trades # <<>>
    /\ bids[1].price < asks[1].price

\* ---------------------------------------------------------------------------
\* C2  Conservation: in every state the cash balances sum to START_CASH times the
\* number of traders in the ledger, and the asset balances to START_ASSETS times
\* that number.
C2_Conservation ==
    LET U == DOMAIN holdings IN
    /\ SumOf(U, [u \in U |-> holdings[u].cash]) = START_CASH * Cardinality(U)
    /\ SumOf(U, [u \in U |-> holdings[u].assets]) = START_ASSETS * Cardinality(U)

\* Two traders have settled a trade with each other.
C2_Witness ==
    /\ Cardinality(DOMAIN holdings) = 2
    /\ \E u \in DOMAIN holdings :
           holdings[u].cash # START_CASH /\ holdings[u].assets # START_ASSETS

\* ---------------------------------------------------------------------------
\* C3  Price-time priority: whenever no call is in progress the bids are ordered by
\* price descending then timestamp ascending and the asks by price ascending then
\* timestamp ascending; and of two orders of one side and price, the one with the
\* later timestamp has a trade only once the earlier one has left the book, all
\* of the earlier one's trades being older.
C3_BidsOrdered ==
    \A i, j \in DOMAIN bids :
        i < j => \/ bids[i].price > bids[j].price
                 \/ (bids[i].price = bids[j].price /\ bids[i].ts <= bids[j].ts)

C3_AsksOrdered ==
    \A i, j \in DOMAIN asks :
        i < j => \/ asks[i].price < asks[j].price
                 \/ (asks[i].price = asks[j].price /\ asks[i].ts <= asks[j].ts)

C3_EarlierFirst ==
    \A i, j \in DOMAIN submitted :
        ( /\ submitted[i].side = submitted[j].side
          /\ submitted[i].price = submitted[j].price
          /\ submitted[i].ts < submitted[j].ts )
        => \A T \in TradesOf(j) :
               /\ i \notin RestingIds
               /\ \A U \in TradesOf(i) : U.id < T.id

C3_PriceTimePriority ==
    AtRest => (C3_BidsOrdered /\ C3_AsksOrdered /\ C3_EarlierFirst)

\* Two asks of one price rested, the earlier one has been consumed and the later
\* one, untouched, still rests.
C3_Witness ==
    /\ AtRest
    /\ \E i, j \in DOMAIN submitted :
           /\ submitted[i].side = "SELL" /\ submitted[j].side = "SELL"
           /\ submitted[i].price = submitted[j].price
           /\ submitted[i].ts < submitted[j].ts
           /\ TradesOf(i) # {} /\ i \notin RestingIds
           /\ TradesOf(j) = {} /\ j \in RestingIds

\* ---------------------------------------------------------------------------
\* C4  Execution price: every trade of the log has the limit price of its sell
\* order, whichever of its two orders came first, and the smaller of what was
\* left of its buy order and of its sell order when it was made; BUY 10@101 then
\* SELL 5@100 gives exactly one trade, 5 at 100, and leaves order 1 resting with 5.
C4_TradeRule ==
    \A T \in Range(trades) :
        /\ T.buy_order_id \in DOMAIN submitted
        /\ T.sell_order_id \in DOMAIN submitted
        /\ T.price = submitted[T.sell_order_id].price
        /\ T.qty = Min(LeftBefore(T.buy_order_id, T), LeftBefore(T.sell_order_id, T))

C4_ScenarioA ==
    /\ DOMAIN submitted = {1, 2}
    /\ submitted[1].side = "BUY" /\ submitted[1].price = 101 /\ submitted[1].qty = 10
    /\ submitted[2].side = "SELL" /\ submitted[2].price = 100 /\ submitted[2].qty = 5

C4_ExecutionPrice ==
    /\ C4_TradeRule
    /\ (AtRest /\ C4_ScenarioA) =>
           /\ trades = <<Trade(1, 100, 5, 1, 2)>>
           /\ bids = <<[submitted[1] EXCEPT !.qty = 5]>>
           /\ asks = <<>>

\* Scenario A has run; and a sell order that came first has traded with a buy
\* order priced above it.
C4_Witness ==
    /\ AtRest /\ C4_ScenarioA /\ trades # <<>>

\* ---------------------------------------------------------------------------
\* C5  Validation: a call of add_order whose side is not BUY or SELL, whose price
\* is negative or whose quantity is below 1 raises ValidationError and leaves the
\* bids, the asks, the trade log and the holdings as they were.
ValidArgs(a) == a.side \in {"BUY", "SELL"} /\ a.price >= 0 /\ a.qty >= 1

C5_Validation ==
    [][ (last' # last /\ last'.op = "add_order" /\ ~ValidArgs(last'.args))
        => ( /\ last'.raised = "ValidationError"
             /\ UNCHANGED <<bids, asks, trades, holdings>> ) ]_vars

\* ---------------------------------------------------------------------------
\* C6  Cancel: cancel(order_id, trader, force) raises nothing; when the order rests
\* and force is set, trader is unset or trader is the order's, it removes exactly
\* that order and returns true; otherwise it returns false and changes nothing.
MayCancel(a) ==
    \E x \in Resting :
        x.id = a.order_id /\ (a.force \/ a.trader = None \/ a.trader = x.user)

Without(s, i) == SelectSeq(s, LAMBDA x : x.id # i)

C6_Cancel ==
    [][ (last' # last /\ last'.op = "cancel")
        => /\ last'.raised = None
           /\ UNCHANGED <<trades, holdings>>
           /\ IF MayCancel(last'.args)
              THEN /\ last'.value = TRUE
                   /\ bids' = Without(bids, last'.args.order_id)
                   /\ asks' = Without(asks, last'.args.order_id)
              ELSE /\ last'.value = FALSE
                   /\ UNCHANGED <<bids, asks>> ]_vars

\* ---------------------------------------------------------------------------
\* C7  Mutual exclusion and atomicity: at most one thread is inside add_order or
\* reset, and it holds the lock; and when a call is about to return, the book is
\* what the whole call, run alone, makes of the book it found when it took the
\* lock (for reset: the empty book), so the calls take effect one after another.
InCall == {t \in Threads : pc[t] # "idle"}

C7_OneAtATime ==
    /\ Cardinality(InCall) <= 1
    /\ \A t \in InCall : lock = t

C7_AsIfAlone ==
    \A t \in Threads :
        /\ pc[t] = "ao_ret" =>
               [Book EXCEPT !.o = o[t]]
                   = AddOrderResult(pre, Order(o[t].id, args[t].user, Upper(args[t].side),
                                               args[t].price, args[t].qty, o[t].ts))
        /\ pc[t] = "r_ret" => Book = EmptyBook(pre)

C7_MutualExclusion == C7_OneAtATime /\ C7_AsIfAlone

\* A thread is about to return from an add_order that traded, the other thread
\* having made the order it traded with.
C7_Witness ==
    /\ pc["t2"] = "ao_ret" /\ pc["t1"] = "idle" /\ lock = "t2"
    /\ trades # <<>> /\ pre.trades = <<>>
    /\ pre.bids # <<>>

\* ---------------------------------------------------------------------------
\* C8  Views: every table a view builds shows its list as it was before the call
\* then in progress or as it is after that whole call.
Holder == CHOOSE t \in Threads : lock = t

BookBefore == IF lock = None THEN Book ELSE pre

BookAfter ==
    IF lock = None THEN Book
    ELSE IF pc[Holder] \in {"r_bids", "r_asks", "r_trades", "r_hold", "r_ret"}
         THEN EmptyBook(pre)
         ELSE IF pc[Holder] = "ao_new" THEN pre
              ELSE AddOrderResult(pre, submitted[o[Holder].id])

Shown(kind, B) ==
    CASE kind = "bids" -> OrderRows(B.bids)
      [] kind = "asks" -> OrderRows(B.asks)
      [] kind = "trades" -> TradeRows(B.trades)
      [] kind = "holdings" -> B.holdings

C8_ViewsNeverTorn ==
    [][ (view' # view /\ view' # NoView)
        => view'.rows \in {Shown(view'.kind, BookBefore), Shown(view'.kind, BookAfter)} ]_vars

\* ---------------------------------------------------------------------------
\* C9  Ledger and trade log agree: whenever no call is in progress, the traders in
\* the ledger are the buyers and sellers of the logged trades, and each one's
\* cash is START_CASH less what the log says he paid plus what it says he
\* received, his assets START_ASSETS plus what he bought less what he sold.
Buyer(T) == submitted[T.buy_order_id].user
Seller(T) == submitted[T.sell_order_id].user
Bought(u) == {T \in Range(trades) : Buyer(T) = u}
Sold(u) == {T \in Range(trades) : Seller(T) = u}
Notional(S) == SumOf(S, [T \in S |-> T.price * T.qty])

C9_LedgerMatchesLog ==
    AtRest =>
        /\ DOMAIN holdings = {Buyer(T) : T \in Range(trades)} \cup {Seller(T) : T \in Range(trades)}
        /\ \A u \in DOMAIN holdings :
               /\ holdings[u].cash = START_CASH - Notional(Bought(u)) + Notional(Sold(u))
               /\ holdings[u].assets = START_ASSETS + QtySum(Bought(u)) - QtySum(Sold(u))

\* Two trades are logged, one trader having bought and another sold.
C9_Witness ==
    /\ AtRest
    /\ Len(trades) = 2
    /\ \E u, v \in DOMAIN holdings : u # v /\ Bought(u) # {} /\ Sold(v) # {}

\* ---------------------------------------------------------------------------
\* C10  Lazy ledger entry on first contact: whenever no call is in progress, every
\* trader with a resting order has a holdings entry, and the trader of the last
\* add_order has one.
C10_LedgerOnFirstContact ==
    AtRest =>
        /\ \A x \in Resting : x.user \in DOMAIN holdings
        /\ last.op = "add_order" => last.args.user \in DOMAIN holdings

\* ---------------------------------------------------------------------------
\* C11  Partial fill preserves identity: whenever no call is in progress, every
\* order that has not been executed in full rests in the list of its side, every
\* resting order has the id, trader, side, price and timestamp it was submitted
\* with and the quantity it was submitted with less the quantities of its trades;
\* and a call leaves any two orders of one list and price that rest before and
\* after it in the order they were in.
PosIn(s, i) == CHOOSE k \in DOMAIN s : s[k].id = i

SameButQty(x, y) ==
    /\ x.id = y.id /\ x.user = y.user /\ x.side = y.side
    /\ x.price = y.price /\ x.ts = y.ts

ListOf(i) == IF submitted[i].side = "BUY" THEN bids ELSE asks

C11_Identity ==
    /\ \A i \in DOMAIN submitted :
           QtySum(TradesOf(i)) < submitted[i].qty
               => \E k \in DOMAIN ListOf(i) : ListOf(i)[k].id = i
    /\ \A x \in Resting :
           /\ x.id \in DOMAIN submitted
           /\ SameButQty(x, submitted[x.id])
           /\ x.qty = submitted[x.id].qty - QtySum(TradesOf(x.id))

KeepsPlace(s, t) ==
    \A x, y \in Range(s) :
        ( /\ x.price = y.price
          /\ \E k \in DOMAIN t : t[k].id = x.id
          /\ \E k \in DOMAIN t : t[k].id = y.id )
        => (PosIn(s, x.id) < PosIn(s, y.id) <=> PosIn(t, x.id) < PosIn(t, y.id))

C11_PartialFillKeepsIdentity ==
    /\ [](AtRest => C11_Identity)
    /\ [][KeepsPlace(bids, bids') /\ KeepsPlace(asks, asks')]_vars

\* An order filled in part still rests ahead of a later order of its side and
\* price.
C11_Witness ==
    /\ AtRest
    /\ \E L \in {bids, asks} :
           /\ Len(L) = 2
           /\ L[1].price = L[2].price
           /\ L[1].id < L[2].id
           /\ L[1].qty < submitted[L[1].id].qty

\* ---------------------------------------------------------------------------
\* C12  Reset clears and is idempotent: when reset has returned, the bids, the
\* asks, the trade log and the holdings are all empty, and a second reset called
\* then can only leave the state as it is.
C12_ResetClearsIdempotent ==
    last.op = "reset" =>
        /\ bids = <<>> /\ asks = <<>> /\ trades = <<>>
        /\ holdings = EmptyMap
        /\ ENABLED Reset
        /\ ~ENABLED (Reset /\ vars' # vars)

\* reset has returned on a book that had traded.
C12_Witness ==
    /\ last.op = "reset"
    /\ order_id_counter > 2 /\ trade_id_counter > 1

\* ---------------------------------------------------------------------------
\* C13  Id uniqueness: both counters start at 1; under every interleaving of the
\* threads, every order made takes the order counter's value and advances it by
\* one, every trade made takes the trade counter's value and advances it by one,
\* and the counters change in no other way, reset included; so no two orders in
\* the book and no two trades in the log share an id, and every id in use is
\* below its counter.
OrderIdsInUse ==
    (RestingIds \cup (DOMAIN submitted) \cup {o[t].id : t \in InCall}) \ {0}

TradeIdsInUse == {T.id : T \in Range(trades)}

C13_IdsDistinct ==
    /\ Cardinality(RestingIds) = Len(bids) + Len(asks)
    /\ Cardinality(TradeIdsInUse) = Len(trades)
    /\ OrderIdsInUse \subseteq 1..(order_id_counter - 1)
    /\ TradeIdsInUse \subseteq 1..(trade_id_counter - 1)

C13_IdsIssued ==
    /\ order_id_counter' \in {order_id_counter, order_id_counter + 1}
    /\ trade_id_counter' \in {trade_id_counter, trade_id_counter + 1}
    /\ \A i \in DOMAIN submitted' \ DOMAIN submitted :
           i = order_id_counter /\ order_id_counter' = i + 1
    /\ order_id_counter' # order_id_counter => order_id_counter \in DOMAIN submitted'
    /\ \A T \in Range(trades') \ Range(trades) :
           T.id = trade_id_counter /\ trade_id_counter' = T.id + 1
    /\ trade_id_counter' # trade_id_counter => trade_id_counter \in TradeIdsInUse'

ByArrival(s) ==
    \A i, j \in DOMAIN s : (i < j /\ s[i].price = s[j].price) => s[i].id < s[j].id

C14_FifoByArrival ==
    AtRest =>
        /\ ByArrival(bids) /\ ByArrival(asks)
        /\ \A i, j \in DOMAIN submitted :
               ( /\ i < j
                 /\ submitted[i].side = submitted[j].side
                 /\ submitted[i].price = submitted[j].price )
               => \A T \in TradesOf(j) :
                      /\ i \notin RestingIds
                      /\ \A U \in TradesOf(i) : U.id < T.id

\* ---------------------------------------------------------------------------
\* C15  Pricing: every trade of the log has the limit price of its sell order;
\* that is the price of the order that was resting when the buy order came in
\* later, and it is the incoming order's own price, at or below the resting
\* bid's, when the sell order came in later.
Passive(T) == Min(T.buy_order_id, T.sell_order_id)

C15_TradesAtAsk ==
    \A T \in Range(trades) :
        /\ T.price = submitted[T.sell_order_id].price
        /\ T.sell_order_id < T.buy_order_id => T.price = submitted[Passive(T)].price
        /\ T.buy_order_id < T.sell_order_id =>
               /\ T.price = submitted[T.sell_order_id].price
               /\ T.price <= submitted[Passive(T)].price

C15_AskPricing == []C15_TradesAtAsk

\* As claimed: every trade of the log has the limit price of the earlier of its
\* two orders, the one that was resting.
C15_PassiveSidePricing ==
    \A T \in Range(trades) : T.price = submitted[Passive(T)].price

\* A sell order has come in below a resting bid and traded with it at its own
\* price.
C15_Witness ==
    \E T \in Range(trades) :
        /\ T.buy_order_id < T.sell_order_id
        /\ T.price < submitted[T.buy_order_id].price

\* ---------------------------------------------------------------------------
\* C16  No zero-quantity resting orders: with quantities of at least 1 submitted,
\* every logged trade has a positive quantity, and every order in the bids and
\* the asks has a positive quantity in every state but the one between the
\* decrement of an iteration of _match and its pops - at rest in particular - so
\* an order brought to zero leaves the book in the iteration that filled it.
C16_NoZeroQuantity ==
    /\ \A T \in Range(trades) : T.qty > 0
    /\ (\A t \in Threads : pc[t] # "m_pop") => \A x \in Resting : x.qty > 0

\* An iteration has popped the order it filled and left the other one, filled in
\* part, in the book.
C16_Witness ==
    /\ \E t \in Threads : pc[t] = "m_resort"
    /\ trades # <<>>
    /\ Len(bids) + Len(asks) = 1
    /\ \E x \in Resting : 0 < x.qty /\ x.qty < submitted[x.id].qty

\* ---------------------------------------------------------------------------
\* C17  Termination of the matching pass: a thread inside add_order eventually
\* is outside it and does not hold the lock; a call has made at most
\* as many trades as there were orders in the book when its pass began (the
\* orders it found and its own); _match leaves its loop exactly when a list is
\* empty or the first bid is priced below the first ask; and the pops of an
\* iteration leave fewer orders in the book than there were.
Uncrossed == bids = <<>> \/ asks = <<>> \/ bids[1].price < asks[1].price

C17_Bounded ==
    \A t \in InCall :
        /\ trade_id_counter - pre.tid <= Len(pre.bids) + Len(pre.asks) + 1
        /\ pc[t] = "m_trade" => ~Uncrossed
        /\ pc[t] = "ao_ret" => Uncrossed

C17_Iteration ==
    \A t \in Threads :
        /\ (pc[t] = "m_loop" /\ pc'[t] # "m_loop") => (pc'[t] = "ao_ret" <=> Uncrossed)
        /\ (pc[t] = "m_pop" /\ pc'[t] # "m_pop")
               => Len(bids') + Len(asks') < Len(bids) + Len(asks)

Limits == {0, 1, 2, DefaultLimit}

C18_LogOrdered ==
    \A i, j \in DOMAIN trades : i < j => trades[i].id > trades[j].id

C18_FirstRows ==
    \A limit \in Limits :
        /\ Len(TradesDf(limit)) = Min(limit, Len(trades))
        /\ \A k \in DOMAIN TradesDf(limit) : TradesDf(limit)[k] = TradeRow(trades[k])

C18_LogKept ==
    last'.op # "reset" =>
        /\ Len(trades') >= Len(trades)
        /\ SubSeq(trades', Len(trades') - Len(trades) + 1, Len(trades')) = trades

C18_TradeLogOrder ==
    /\ [](C18_LogOrdered /\ C18_FirstRows)
    /\ [][C18_LogKept]_vars

\* Two trades are logged, the later one at the head, and a table limited to one
\* row shows it.
C18_Witness ==
    /\ Len(trades) = 2
    /\ trades[1].id = trades[2].id + 1
    /\ TradesDf(1) = <<TradeRow(trades[1])>>

\* ---------------------------------------------------------------------------
\* C19  Fill accounting: whenever no call is in progress, the quantity every order
\* made since the last reset was submitted with is what is left of it in the
\* book (nothing, when it is not there) plus the quantities of the logged trades
\* that name it; and the order add_order returned last has the quantity asked
\* for less the quantities of the trades that call made.
Remaining(i) ==
    IF i \in RestingIds THEN (CHOOSE x \in Resting : x.id = i).qty ELSE 0

C19_Accounted ==
    AtRest =>
        \A i \in DOMAIN submitted :
            submitted[i].qty = Remaining(i) + QtySum(TradesOf(i))

C19_Returned ==
    (last'.op = "add_order" /\ order_id_counter' # order_id_counter) =>
        /\ last'.value.id = order_id_counter
        /\ last'.value.qty = last'.args.qty - QtySum(Range(trades') \ Range(trades))
        /\ \A T \in Range(trades') \ Range(trades) :
               last'.value.id \in {T.buy_order_id, T.sell_order_id}

C19_FillAccounting ==
    /\ []C19_Accounted
    /\ [][C19_Returned]_vars

\* The last add_order traded part of its order on arrival and returned it with
\* the rest, which is in the book; the order it traded with is gone.
C19_Witness ==
    /\ AtRest
    /\ last.op = "add_order"
    /\ 0 < last.value.qty /\ last.value.qty < last.args.qty
    /\ last.value.id \in RestingIds
    /\ \E i \in DOMAIN submitted : i \notin RestingIds

\* ---------------------------------------------------------------------------
\* C20  Only the incoming order trades: every trade an add_order makes has the
\* new order as its buy order when that is a BUY and as its sell order when it
\* is a SELL, the other order being one that rested in the opposite list; and
\* the call leaves the list of the new order's side as it found it, but for the
\* new order when it stays.
IdsOf(s) == {x.id : x \in Range(s)}

C20_IncomingTrades ==
    (last'.op = "add_order" /\ order_id_counter' # order_id_counter) =>
        LET n == last'.value IN
        IF n.side = "BUY"
        THEN /\ \A T \in Range(trades') \ Range(trades) :
                    T.buy_order_id = n.id /\ T.sell_order_id \in IdsOf(asks)
             /\ Without(bids', n.id) = bids
        ELSE /\ \A T \in Range(trades') \ Range(trades) :
                    T.sell_order_id = n.id /\ T.buy_order_id \in IdsOf(bids)
             /\ Without(asks', n.id) = asks

C20_OnlyIncomingTrades == [][C20_IncomingTrades]_vars

\* The last add_order traded on arrival while an earlier order of its side,
\* which never traded, rests on.
C20_Witness ==
    /\ AtRest
    /\ last.op = "add_order"
    /\ TradesOf(last.value.id) # {}
    /\ \E x \in Resting :
           /\ x.side = last.value.side /\ x.id < last.value.id
           /\ TradesOf(x.id) = {}

=============================================================================
